---- MODULE Spec2Model ----
(***************************************************************************)
(* Model of brightshift (src/main.rs): the argument parser and the action  *)
(* dispatcher of main(), with the DDC/CI display collaborator modelled as  *)
(* an environment that returns a display list and per-call results.        *)
(***************************************************************************)
EXTENDS Integers, Sequences, FiniteSets, TLC

VARIABLES args, pc, idx, brightness_value, print_help, print_status,
          get_brightness, adjust_brightness, action, new_brightness,
          displays, k, io, exit_code

vars == <<args, pc, idx, brightness_value, print_help, print_status,
          get_brightness, adjust_brightness, action, new_brightness,
          displays, k, io, exit_code>>

(* ---------------- bounds of the model ---------------- *)
MaxArgs == 2
MaxDisplays == 2

(* ---------------- program constants ---------------- *)
VCP_BRIGHTNESS == 16
MAX_BRIGHTNESS == 100
MIN_ARGS == 2
I16_MIN == -32768
I16_MAX == 32767
U16_MAX == 65535
EXIT_PANIC == 101

(* Option<T> as a sequence of length 0 or 1 *)
None == <<>>
Some(v) == <<v>>

(* ---------------- tokens: strings as sequences of characters ---------- *)
ProgName == <<"b">>
T_help == <<"-","-","h","e","l","p">>
T_h == <<"-","h">>
T_status == <<"-","-","s","t","a","t","u","s">>
T_s == <<"-","s">>
T_get == <<"-","-","g","e","t">>
T_g == <<"-","g">>

Tokens ==
  { T_help, T_h, T_status, T_s, T_get, T_g,
    <<"+","5","0">>, <<"-","5","0">>, <<"-","3","2","7","6","8">>,
    <<"+">>, <<"-","x">>, <<"+","3","2","7","6","8">>,
    <<"0">>, <<"5","0">>, <<"1","0","0">>, <<"1","0","1">>,
    <<"6","5","5","3","6">>, <<"a","b","c">>, <<>> }

ArgLists ==
  { <<ProgName>> \o t : t \in UNION { [1..n -> Tokens] : n \in 0..MaxArgs } }

(* values a display may report for VCP feature 0x10 (16-bit unsigned) *)
CurValues == {0, 60, 100, 32767, 40000}

DisplayLists ==
  UNION { [1..n -> [vcp10 : CurValues]] : n \in 0..MaxDisplays }

(* ---------------- str::parse::<i16>() / str::parse::<u16>() ----------- *)
IsDigit(c) == c \in {"0","1","2","3","4","5","6","7","8","9"}

DigitVal(c) ==
  CASE c = "0" -> 0 [] c = "1" -> 1 [] c = "2" -> 2 [] c = "3" -> 3
    [] c = "4" -> 4 [] c = "5" -> 5 [] c = "6" -> 6 [] c = "7" -> 7
    [] c = "8" -> 8 [] c = "9" -> 9

RECURSIVE DigitsValue(_, _)
DigitsValue(s, acc) ==
  IF s = <<>> THEN acc
  ELSE DigitsValue(Tail(s), acc * 10 + DigitVal(Head(s)))

AllDigits(s) == \A j \in 1..Len(s) : IsDigit(s[j])

(* from_str_radix: optional '+', '-' only for signed types, at least one  *)
(* digit, every character a digit, result within the type's range.        *)
ParseInt(s, signed, lo, hi) ==
  IF s = <<>> THEN None
  ELSE LET neg == signed /\ Head(s) = "-"
           body == IF Head(s) = "+" \/ neg THEN Tail(s) ELSE s
       IN IF body = <<>> \/ ~AllDigits(body) THEN None
          ELSE LET v == IF neg THEN 0 - DigitsValue(body, 0)
                        ELSE DigitsValue(body, 0)
               IN IF v < lo \/ v > hi THEN None ELSE Some(v)

(* variant: the delta parsed into a wider type than 16 bits *)
ParseI16_Wide(s) == ParseInt(s, TRUE, 0 - 8388608, 8388607)
ParseI16(s) == ParseInt(s, TRUE, I16_MIN, I16_MAX)
ParseU16(s) == ParseInt(s, FALSE, 0, U16_MAX)

StartsWithSign(s) == s # <<>> /\ (Head(s) = "+" \/ Head(s) = "-")



(* ---------------- integer casts and clamp ---------------- *)
AsI16(u) == IF u > I16_MAX THEN u - (U16_MAX + 1) ELSE u
AsU16(x) == x % (U16_MAX + 1)
WrapI16(x) == ((x - I16_MIN) % (U16_MAX + 1)) + I16_MIN
OverflowsI16(x) == x < I16_MIN \/ x > I16_MAX
(* variant: the lower bound is not applied *)
Clamp_NoLower(x, lo, hi) == IF x > hi THEN hi ELSE x
Clamp(x, lo, hi) == IF x < lo THEN lo ELSE IF x > hi THEN hi ELSE x

(* variant: off-by-one range check *)
ExceedsRange_OffByOne(v) == v > MAX_BRIGHTNESS + 1
ExceedsRange(v) == v > MAX_BRIGHTNESS
(* variant: off-by-one argument count check *)
TooFewArgs_OffByOne(n) == n < MIN_ARGS - 1
TooFewArgs(n) == n < MIN_ARGS

(* ---------------- log of calls into the display collaborator ---------- *)
EnumCall(n) == [op |-> "enumerate", disp |-> 0, code |-> 0, val |-> n, ok |-> TRUE]
GetCall(d, v, ok) == [op |-> "get", disp |-> d, code |-> VCP_BRIGHTNESS, val |-> v, ok |-> ok]
SetCall(d, v, ok) == [op |-> "set", disp |-> d, code |-> VCP_BRIGHTNESS, val |-> v, ok |-> ok]

Init ==
  /\ args \in ArgLists
  /\ pc = "start"
  /\ idx = 2
  /\ brightness_value = None
  /\ print_help = FALSE
  /\ print_status = FALSE
  /\ get_brightness = FALSE
  /\ adjust_brightness = None
  /\ action = "none"
  /\ new_brightness = 0
  /\ displays = <<>>
  /\ k = 1
  /\ io = <<>>
  /\ exit_code = None

(* std::process::exit(code), or returning from main with code 0 *)
Exit(code) == pc' = "exited" /\ exit_code' = Some(code)
Panic == pc' = "panicked" /\ exit_code' = Some(EXIT_PANIC)

(* main.rs 29-34 *)
CheckArgs ==
  /\ pc = "start"
  /\ IF TooFewArgs(Len(args)) THEN Exit(1)
     ELSE pc' = "parse" /\ exit_code' = exit_code
  /\ UNCHANGED <<args, idx, brightness_value, print_help, print_status,
                 get_brightness, adjust_brightness, action, new_brightness,
                 displays, k, io>>

(* main.rs 54-80: one iteration of the argument loop *)
ParseArg ==
  /\ pc = "parse"
  /\ idx <= Len(args)
  /\ LET arg == args[idx] IN
       CASE arg \in {T_help, T_h} ->
              /\ print_help' = TRUE
              /\ idx' = idx + 1
              /\ UNCHANGED <<print_status, get_brightness, adjust_brightness,
                             brightness_value, pc, exit_code>>
         [] arg \in {T_status, T_s} ->
              /\ print_status' = TRUE
              /\ idx' = idx + 1
              /\ UNCHANGED <<print_help, get_brightness, adjust_brightness,
                             brightness_value, pc, exit_code>>
         [] arg \in {T_get, T_g} ->
              /\ get_brightness' = TRUE
              /\ idx' = idx + 1
              /\ UNCHANGED <<print_help, print_status, adjust_brightness,
                             brightness_value, pc, exit_code>>
         [] OTHER ->
              IF StartsWithSign(arg)
              THEN IF ParseI16(arg) # None
                   THEN /\ adjust_brightness' = ParseI16(arg)
                        /\ idx' = idx + 1
                        /\ UNCHANGED <<print_help, print_status, get_brightness,
                                       brightness_value, pc, exit_code>>
                   ELSE /\ Exit(1)
                        /\ UNCHANGED <<print_help, print_status, get_brightness,
                                       adjust_brightness, brightness_value, idx>>
              ELSE IF brightness_value # None
                   THEN /\ Exit(1)
                        /\ UNCHANGED <<print_help, print_status, get_brightness,
                                       adjust_brightness, brightness_value, idx>>
                   ELSE /\ brightness_value' = Some(arg)
                        /\ idx' = idx + 1
                        /\ UNCHANGED <<print_help, print_status, get_brightness,
                                       adjust_brightness, pc, exit_code>>
  /\ UNCHANGED <<args, action, new_brightness, displays, k, io>>

(* variant: the status flag tested before the help flag *)
Dispatch_StatusFirst ==
  /\ pc = "parse"
  /\ idx > Len(args)
  /\ IF print_status
     THEN action' = "status" /\ pc' = "status_enum" /\ exit_code' = exit_code
     ELSE IF print_help THEN action' = "help" /\ Exit(0)
     ELSE IF get_brightness
          THEN action' = "get" /\ pc' = "get_enum" /\ exit_code' = exit_code
     ELSE IF adjust_brightness # None
          THEN action' = "adjust" /\ pc' = "adjust_enum" /\ exit_code' = exit_code
     ELSE action' = "set" /\ pc' = "set_parse" /\ exit_code' = exit_code
  /\ UNCHANGED <<args, idx, brightness_value, print_help, print_status,
                 get_brightness, adjust_brightness, new_brightness,
                 displays, k, io>>

(* main.rs 82-85, 87, 105, 120, 148: the chain of ifs after the loop *)
Dispatch ==
  /\ pc = "parse"
  /\ idx > Len(args)
  /\ IF print_help THEN action' = "help" /\ Exit(0)
     ELSE IF print_status
          THEN action' = "status" /\ pc' = "status_enum" /\ exit_code' = exit_code
     ELSE IF get_brightness
          THEN action' = "get" /\ pc' = "get_enum" /\ exit_code' = exit_code
     ELSE IF adjust_brightness # None
          THEN action' = "adjust" /\ pc' = "adjust_enum" /\ exit_code' = exit_code
     ELSE action' = "set" /\ pc' = "set_parse" /\ exit_code' = exit_code
  /\ UNCHANGED <<args, idx, brightness_value, print_help, print_status,
                 get_brightness, adjust_brightness, new_brightness,
                 displays, k, io>>

(* main.rs 89, 107, 122: Display::enumerate() of the three flag paths *)
Enumerate ==
  /\ pc \in {"status_enum", "get_enum", "adjust_enum"}
  /\ \E ds \in DisplayLists :
       /\ displays' = ds
       /\ io' = Append(io, EnumCall(Len(ds)))
  /\ k' = 1
  /\ pc' = CASE pc = "status_enum" -> "status_loop"
             [] pc = "get_enum" -> "get_loop"
             [] pc = "adjust_enum" -> "adjust_loop"
  /\ UNCHANGED <<args, idx, brightness_value, print_help, print_status,
                 get_brightness, adjust_brightness, action, new_brightness,
                 exit_code>>

(* main.rs 90-101 *)
StatusLoop ==
  /\ pc = "status_loop"
  /\ k <= Len(displays)
  /\ \E ok \in BOOLEAN :
       io' = Append(io, GetCall(k, IF ok THEN displays[k].vcp10 ELSE 0, ok))
  /\ k' = k + 1
  /\ UNCHANGED <<args, pc, idx, brightness_value, print_help, print_status,
                 get_brightness, adjust_brightness, action, new_brightness,
                 displays, exit_code>>

(* main.rs 102 *)
StatusExit ==
  /\ pc = "status_loop"
  /\ k > Len(displays)
  /\ Exit(0)
  /\ UNCHANGED <<args, idx, brightness_value, print_help, print_status,
                 get_brightness, adjust_brightness, action, new_brightness,
                 displays, k, io>>

(* variant: a failed read ends the invocation *)
GetLoop_StopOnError ==
  /\ pc = "get_loop"
  /\ k <= Len(displays)
  /\ \E ok \in BOOLEAN :
       /\ io' = Append(io, GetCall(k, IF ok THEN displays[k].vcp10 ELSE 0, ok))
       /\ IF ok THEN pc' = pc /\ exit_code' = exit_code ELSE Exit(1)
  /\ k' = k + 1
  /\ UNCHANGED <<args, idx, brightness_value, print_help, print_status,
                 get_brightness, adjust_brightness, action, new_brightness,
                 displays>>

(* main.rs 108-116 *)
GetLoop ==
  /\ pc = "get_loop"
  /\ k <= Len(displays)
  /\ \E ok \in BOOLEAN :
       io' = Append(io, GetCall(k, IF ok THEN displays[k].vcp10 ELSE 0, ok))
  /\ k' = k + 1
  /\ UNCHANGED <<args, pc, idx, brightness_value, print_help, print_status,
                 get_brightness, adjust_brightness, action, new_brightness,
                 displays, exit_code>>

(* main.rs 117 *)
GetExit ==
  /\ pc = "get_loop"
  /\ k > Len(displays)
  /\ Exit(0)
  /\ UNCHANGED <<args, idx, brightness_value, print_help, print_status,
                 get_brightness, adjust_brightness, action, new_brightness,
                 displays, k, io>>

(* main.rs 123-144: one iteration of the adjust loop.  The i16 addition   *)
(* panics when overflow checks are compiled in and wraps otherwise.       *)
AdjustLoop ==
  /\ pc = "adjust_loop"
  /\ k <= Len(displays)
  /\ \E rok \in BOOLEAN :
       IF ~rok
       THEN /\ io' = Append(io, GetCall(k, 0, FALSE))
            /\ k' = k + 1
            /\ UNCHANGED <<displays, pc, exit_code>>
       ELSE LET cur == displays[k].vcp10
                sum == AsI16(cur) + adjust_brightness[1]
                nb == AsU16(Clamp(WrapI16(sum), 0, MAX_BRIGHTNESS))
            IN \/ /\ OverflowsI16(sum)
                  /\ io' = Append(io, GetCall(k, cur, TRUE))
                  /\ Panic
                  /\ UNCHANGED <<displays, k>>
               \/ \E wok \in BOOLEAN :
                    /\ io' = io \o <<GetCall(k, cur, TRUE), SetCall(k, nb, wok)>>
                    /\ displays' = IF wok
                                   THEN [displays EXCEPT ![k].vcp10 = nb]
                                   ELSE displays
                    /\ k' = k + 1
                    /\ UNCHANGED <<pc, exit_code>>
  /\ UNCHANGED <<args, idx, brightness_value, print_help, print_status,
                 get_brightness, adjust_brightness, action, new_brightness>>

(* main.rs 145 *)
AdjustExit ==
  /\ pc = "adjust_loop"
  /\ k > Len(displays)
  /\ Exit(0)
  /\ UNCHANGED <<args, idx, brightness_value, print_help, print_status,
                 get_brightness, adjust_brightness, action, new_brightness,
                 displays, k, io>>

(* main.rs 149-158: unwrap the positional value and parse it as u16 *)
SetParse ==
  /\ pc = "set_parse"
  /\ IF brightness_value = None
     THEN Panic /\ UNCHANGED new_brightness
     ELSE IF ParseU16(brightness_value[1]) = None
          THEN Exit(1) /\ UNCHANGED new_brightness
          ELSE /\ new_brightness' = ParseU16(brightness_value[1])[1]
               /\ pc' = "set_range"
               /\ exit_code' = exit_code
  /\ UNCHANGED <<args, idx, brightness_value, print_help, print_status,
                 get_brightness, adjust_brightness, action, displays, k, io>>

(* main.rs 161-164 *)
SetRange ==
  /\ pc = "set_range"
  /\ IF ExceedsRange(new_brightness) THEN Exit(1)
     ELSE pc' = "set_enum" /\ exit_code' = exit_code
  /\ UNCHANGED <<args, idx, brightness_value, print_help, print_status,
                 get_brightness, adjust_brightness, action, new_brightness,
                 displays, k, io>>

(* variant: the empty display list is not rejected *)
SetEnumerate_NoEmptyCheck ==
  /\ pc = "set_enum"
  /\ \E ds \in DisplayLists :
       /\ displays' = ds
       /\ io' = Append(io, EnumCall(Len(ds)))
  /\ pc' = "set_loop"
  /\ k' = 1
  /\ UNCHANGED <<args, idx, brightness_value, print_help, print_status,
                 get_brightness, adjust_brightness, action, new_brightness,
                 exit_code>>

(* main.rs 167-172 *)
SetEnumerate ==
  /\ pc = "set_enum"
  /\ \E ds \in DisplayLists :
       /\ displays' = ds
       /\ io' = Append(io, EnumCall(Len(ds)))
       /\ IF ds = <<>> THEN Exit(1)
          ELSE pc' = "set_loop" /\ exit_code' = exit_code
  /\ k' = 1
  /\ UNCHANGED <<args, idx, brightness_value, print_help, print_status,
                 get_brightness, adjust_brightness, action, new_brightness>>

(* variant: a failed write ends the invocation *)
SetLoop_StopOnError ==
  /\ pc = "set_loop"
  /\ k <= Len(displays)
  /\ \E ok \in BOOLEAN :
       /\ io' = Append(io, SetCall(k, new_brightness, ok))
       /\ displays' = IF ok
                      THEN [displays EXCEPT ![k].vcp10 = new_brightness]
                      ELSE displays
       /\ IF ok THEN pc' = pc /\ exit_code' = exit_code ELSE Exit(1)
  /\ k' = k + 1
  /\ UNCHANGED <<args, idx, brightness_value, print_help, print_status,
                 get_brightness, adjust_brightness, action, new_brightness>>

(* main.rs 175-186 *)
SetLoop ==
  /\ pc = "set_loop"
  /\ k <= Len(displays)
  /\ \E ok \in BOOLEAN :
       /\ io' = Append(io, SetCall(k, new_brightness, ok))
       /\ displays' = IF ok
                      THEN [displays EXCEPT ![k].vcp10 = new_brightness]
                      ELSE displays
  /\ k' = k + 1
  /\ UNCHANGED <<args, pc, idx, brightness_value, print_help, print_status,
                 get_brightness, adjust_brightness, action, new_brightness,
                 exit_code>>

(* main.rs 187: main returns *)
SetReturn ==
  /\ pc = "set_loop"
  /\ k > Len(displays)
  /\ Exit(0)
  /\ UNCHANGED <<args, idx, brightness_value, print_help, print_status,
                 get_brightness, adjust_brightness, action, new_brightness,
                 displays, k, io>>

Next ==
  \/ CheckArgs
  \/ ParseArg
  \/ Dispatch
  \/ Enumerate
  \/ StatusLoop
  \/ StatusExit
  \/ GetLoop
  \/ GetExit
  \/ AdjustLoop
  \/ AdjustExit
  \/ SetParse
  \/ SetRange
  \/ SetEnumerate
  \/ SetLoop
  \/ SetReturn

Spec == Init /\ [][Next]_vars

TypeOK ==
  /\ args \in ArgLists
  /\ pc \in {"start", "parse", "status_enum", "get_enum", "adjust_enum",
             "status_loop", "get_loop", "adjust_loop", "set_parse",
             "set_range", "set_enum", "set_loop", "exited", "panicked"}
  /\ action \in {"none", "help", "status", "get", "adjust", "set"}
  /\ exit_code \in {None, Some(0), Some(1), Some(EXIT_PANIC)}
  /\ new_brightness \in 0..U16_MAX
(* ======================= properties ======================= *)
Terminal == pc \in {"exited", "panicked"}
Flags == {T_help, T_h, T_status, T_s, T_get, T_g}
ArgIdx == 2..Len(args)
HasHelp == \E j \in ArgIdx : args[j] \in {T_help, T_h}
HasStatus == \E j \in ArgIdx : args[j] \in {T_status, T_s}
HasGet == \E j \in ArgIdx : args[j] \in {T_get, T_g}
IsDeltaTok(t) == t \notin Flags /\ StartsWithSign(t)
IsPositional(t) == t \notin Flags /\ ~StartsWithSign(t)
HasDelta == \E j \in ArgIdx : IsDeltaTok(args[j])
IsNumber(t) == t # <<>> /\ AllDigits(t)
NumberOf(t) == DigitsValue(t, 0)
MathMin(a, b) == IF a < b THEN a ELSE b
MathMax(a, b) == IF a > b THEN a ELSE b
NoCall(op) == \A j \in 1..Len(io) : io[j].op # op

(* a sign followed by decimal digits whose value fits 16 signed bits *)
IsSignedInt16(t) ==
  /\ Len(t) >= 2
  /\ AllDigits(Tail(t))
  /\ IF Head(t) = "-" THEN NumberOf(Tail(t)) <= 32768
     ELSE NumberOf(Tail(t)) <= 32767
BadDelta == \E j \in ArgIdx : IsDeltaTok(args[j]) /\ ~IsSignedInt16(args[j])
TwoPositionals ==
  \E i \in ArgIdx : \E j \in ArgIdx :
    i # j /\ IsPositional(args[i]) /\ IsPositional(args[j])
ParserFails == Len(args) = 1 \/ BadDelta \/ TwoPositionals

(* the argument list is <prog> N with N a decimal number in 0..100 *)
SetInvocation ==
  /\ Len(args) = 2
  /\ IsNumber(args[2])
  /\ NumberOf(args[2]) \in 0..100

(* C1: `<prog> N` with N in 0..100 and a non-empty display list issues    *)
(* exactly one set-feature(0x10, N) per display in enumeration order and  *)
(* no get-feature; a failed write does not stop later writes and the      *)
(* process ends with exit status 0.                                       *)
C1_SetWritesEveryDisplayOnce ==
  SetInvocation =>
    /\ NoCall("get")
    /\ \A j \in 2..Len(io) :
         io[j].op = "set" /\ io[j].disp = j - 1
           /\ io[j].code = VCP_BRIGHTNESS /\ io[j].val = NumberOf(args[2])
    /\ (Terminal /\ io # <<EnumCall(0)>>) =>
         /\ exit_code = Some(0)
         /\ Len(displays) > 0
         /\ Len(io) = Len(displays) + 1
         /\ io[1] = EnumCall(Len(displays))

C1_Witness ==
  /\ SetInvocation
  /\ pc = "exited"
  /\ exit_code = Some(0)
  /\ Len(io) = 3
  /\ ~io[2].ok
  /\ io[3].ok

(* C2: on the Adjust path, for a display whose read returned C and a      *)
(* delta D, the value written equals max(0, min(100, C + D)) over the     *)
(* mathematical integers.                                                 *)
C2_AdjustWritesMathClamp ==
  \A j \in 2..Len(io) :
    (action = "adjust" /\ io[j].op = "set") =>
      /\ io[j - 1].op = "get"
      /\ io[j - 1].ok
      /\ io[j].val =
           MathMax(0, MathMin(100, io[j - 1].val + adjust_brightness[1]))

BadSingle ==
  /\ Len(args) = 2
  /\ IsPositional(args[2])
  /\ (~IsNumber(args[2]) \/ NumberOf(args[2]) > 100)

(* C3: `<prog> X` with X a bare positional that is a number above 100 or  *)
(* not a number exits with status 1 and performs no display I/O at all.   *)
C3_BadValueExitsWithoutIO ==
  BadSingle =>
    /\ io = <<>>
    /\ displays = <<>>
    /\ pc \in {"start", "parse", "set_parse", "set_range", "exited"}
    /\ Terminal => exit_code = Some(1)

C3_Witness ==
  /\ BadSingle
  /\ pc = "exited"
  /\ exit_code = Some(1)
  /\ new_brightness > 100

(* C4: an argument list that is empty, holds an unparseable +/- token or  *)
(* holds more than one bare positional exits with status 1 and performs   *)
(* no display I/O, whatever flags it also holds.                          *)
C4_ParserFailureExitsWithoutIO ==
  ParserFails =>
    /\ io = <<>>
    /\ action = "none"
    /\ pc \in {"start", "parse", "exited"}
    /\ Terminal => exit_code = Some(1)

C4_Witness ==
  /\ ParserFails
  /\ HasHelp
  /\ print_help
  /\ pc = "exited"
  /\ exit_code = Some(1)

ExpectedAction ==
  IF HasHelp THEN "help"
  ELSE IF HasStatus THEN "status"
  ELSE IF HasGet THEN "get"
  ELSE IF HasDelta THEN "adjust"
  ELSE "set"

(* C5: for every accepted argument list exactly one action is performed,  *)
(* chosen by the precedence Help > Status > Get > Adjust > Set whatever   *)
(* the order of the tokens; with a help flag there is no display I/O and  *)
(* the exit status is 0; with a status flag and no help flag only reads   *)
(* are issued.                                                            *)
C5_ActionPrecedence ==
  ~ParserFails =>
    /\ action \in {"none", ExpectedAction}
    /\ Terminal => action = ExpectedAction
    /\ HasHelp => (io = <<>> /\ (Terminal => exit_code = Some(0)))
    /\ (HasStatus /\ ~HasHelp) => NoCall("set")

C5_Witness ==
  /\ Len(args) = 3
  /\ args[2] \in {T_status, T_s}
  /\ args[3] \in {T_help, T_h}
  /\ action = "help"
  /\ pc = "exited"
  /\ exit_code = Some(0)

InvalidPositional ==
  \E j \in ArgIdx : IsPositional(args[j]) /\ ~IsNumber(args[j])
OutOfRangePositional ==
  \E j \in ArgIdx :
    IsPositional(args[j]) /\ IsNumber(args[j]) /\ NumberOf(args[j]) > 100
EmptySetList == action = "set" /\ io # <<>> /\ io[1] = EnumCall(0)
SetSelected == ~HasHelp /\ ~HasStatus /\ ~HasGet /\ ~HasDelta
AbortedWithoutIO ==
  /\ NoCall("get")
  /\ NoCall("set")
  /\ Terminal => exit_code = Some(1)

(* C6 as stated: whenever the positional value is not a number, or is     *)
(* above 100, or a delta token is unparseable, or the Set path enumerates *)
(* no display, the invocation exits 1 with no get-feature or set-feature. *)
C6_FatalAbortsAlways ==
  (InvalidPositional \/ OutOfRangePositional \/ BadDelta \/ EmptySetList)
    => AbortedWithoutIO

(* C6 amended: an unparseable delta token always aborts; an invalid or    *)
(* out-of-range positional value and an empty display list abort when the *)
(* Set action is the one selected (no help, status or get flag and no     *)
(* delta token); the abort is exit status 1 with no get-feature or        *)
(* set-feature call.                                                      *)
C6_FatalAbortsOnSetPath ==
  (\/ BadDelta
   \/ (SetSelected /\ (InvalidPositional \/ OutOfRangePositional))
   \/ EmptySetList)
    => AbortedWithoutIO

C6_Witness ==
  /\ EmptySetList
  /\ pc = "exited"
  /\ exit_code = Some(1)

(* C7: every set-feature call issued, on the Adjust and the Set path,     *)
(* targets feature 0x10 and carries a value in 0..100.                    *)
C7_WritesInRange ==
  \A j \in 1..Len(io) :
    io[j].op = "set" =>
      io[j].code = VCP_BRIGHTNESS /\ io[j].val \in 0..MAX_BRIGHTNESS

C7_Witness ==
  /\ action = "adjust"
  /\ Len(io) >= 3
  /\ io[2].op = "get"
  /\ io[2].val = 40000
  /\ io[3].op = "set"
  /\ io[3].val = 0

ReadOnlyLog ==
  /\ NoCall("set")
  /\ \A j \in 2..Len(io) :
       io[j].op = "get" /\ io[j].disp = j - 1 /\ io[j].code = VCP_BRIGHTNESS
  /\ Terminal =>
       /\ exit_code = Some(0)
       /\ Len(io) = Len(displays) + 1
       /\ io[1] = EnumCall(Len(displays))

(* C8: when the action is Status or Get, exactly one get-feature(0x10) is *)
(* issued per enumerated display, no set-feature is issued, no display's  *)
(* brightness changes, and the exit status is 0 for every display list.   *)
C8_ReadOnlyActions ==
  [][ /\ (action' \in {"status", "get"}) => ReadOnlyLog'
      /\ (action \in {"status", "get"} /\ io # <<>>) => displays' = displays
    ]_vars

C8_Witness ==
  /\ action = "get"
  /\ pc = "exited"
  /\ exit_code = Some(0)
  /\ Len(displays) = 2
  /\ Len(io) = 3
  /\ ~io[2].ok
  /\ ~io[3].ok

RECURSIVE AdjustPattern(_, _, _, _)
AdjustPattern(log, j, d, n) ==
  IF d > n THEN j = Len(log) + 1
  ELSE /\ j <= Len(log)
       /\ log[j].op = "get"
       /\ log[j].disp = d
       /\ IF log[j].ok
          THEN /\ j + 1 <= Len(log)
               /\ log[j + 1].op = "set"
               /\ log[j + 1].disp = d
               /\ AdjustPattern(log, j + 2, d + 1, n)
          ELSE AdjustPattern(log, j + 1, d + 1, n)

(* C9: on the Adjust path every display, in enumeration order, gets one   *)
(* get-feature followed by one set-feature iff the read succeeded; no     *)
(* failure stops later displays and the process exits 0 for every display *)
(* list and every pattern of failures.                                    *)
C9_AdjustLoopCompletes ==
  (action = "adjust" /\ Terminal) =>
    /\ exit_code = Some(0)
    /\ io # <<>>
    /\ io[1] = EnumCall(Len(displays))
    /\ AdjustPattern(io, 2, 1, Len(displays))

(* C10: whenever control reaches the Set path a positional value has been *)
(* recorded, so the unwrap cannot fail and the Set path ends only with    *)
(* exit status 0 or 1.                                                    *)
C10_SetPathHasPositional ==
  /\ pc = "set_parse" => brightness_value # None
  /\ (action = "set" /\ Terminal) => exit_code \in {Some(0), Some(1)}

C10_Witness ==
  /\ pc = "set_parse"
  /\ brightness_value = Some(<<"a","b","c">>)
====
